---------------------------- MODULE Spec2Model ----------------------------
(***************************************************************************)
(* A model of src/server.js: the /ask question-answering handler of the    *)
(* Zoho knowledge-base server (tokenizer, term-frequency vectors, cosine   *)
(* ranking with low-confidence fallback, local answer synthesis).          *)
(*                                                                         *)
(* Text is a sequence of Unicode code points (UTF-16 code units; every     *)
(* character used is in the Basic Multilingual Plane), so that the         *)
(* regular expressions of the source act on the same characters here:      *)
(* ASCII letters and digits, ASCII punctuation, and letters of the Arabic  *)
(* block U+0600..U+06FF, which is the script of the knowledge base.        *)
(***************************************************************************)
EXTENDS Integers, Sequences, FiniteSets, TLC

(***************************************************************************)
(* Bounds of the model.                                                    *)
(***************************************************************************)
\* top_k of a request ranges over -1..MaxTopK (and "not given")
MaxTopK == 2
\* texts handed to tokenize on its own are at most MaxLen characters long
MaxLen == 3
\* term counts of the vectors handed to cosine on its own are 0..MaxCount
MaxCount == 2

(***************************************************************************)
(* Sequences.                                                              *)
(***************************************************************************)
Last(s) == s[Len(s)]

RECURSIVE Join(_, _)
\* Array.prototype.join: the pieces with sep between them
Join(pieces, sep) ==
  IF pieces = <<>> THEN <<>>
  ELSE IF Len(pieces) = 1 THEN pieces[1]
  ELSE pieces[1] \o sep \o Join(Tail(pieces), sep)

\* Array.prototype.slice(begin0, end) with a begin of 0: a negative end counts
\* from the end of the array, an end past the length stops at the length
Slice0(s, end) ==
  LET n == Len(s)
      e == IF end < 0 THEN (IF n + end < 0 THEN 0 ELSE n + end)
           ELSE (IF end > n THEN n ELSE end)
  IN  SubSeq(s, 1, e)

\* kw stands in text at position i (1-based)
MatchesAt(text, i, kw) ==
  /\ i + Len(kw) - 1 <= Len(text)
  /\ \A j \in 1..Len(kw) : text[i + j - 1] = kw[j]

\* String.prototype.includes: kw occurs in text as a contiguous substring
Includes(text, kw) == \E i \in 1..Len(text) : MatchesAt(text, i, kw)

\* array.some(kw => text.includes(kw))
IncludesSome(text, kws) == \E i \in 1..Len(kws) : Includes(text, kws[i])

RECURSIVE SkipIn(_, _, _)
\* the first position from i on whose character is not in set S (a greedy
\* run of a character class), Len(text) + 1 when the run reaches the end
SkipIn(text, i, S) ==
  IF i <= Len(text) /\ text[i] \in S THEN SkipIn(text, i + 1, S) ELSE i

\* the least element of a non-empty set of positions
MinOf(S) == CHOOSE x \in S : \A y \in S : x <= y

\* the same for the complemented class [^...]: the first position from i on
\* whose character is in S
SkipNotIn(text, i, S) ==
  LET stops == {j \in i..Len(text) : text[j] \in S}
  IN  IF stops /= {} THEN MinOf(stops)
      ELSE IF i > Len(text) THEN i ELSE Len(text) + 1

Min(a, b) == IF a < b THEN a ELSE b

(***************************************************************************)
(* Characters: the classes of the regular expressions in the source        *)
(* (ECMAScript, no u flag).                                                *)
(***************************************************************************)
\* \w is ASCII only: [A-Za-z0-9_]
IsWordChar(c) == c \in (48..57) \cup (65..90) \cup {95} \cup (97..122)

\* \s: white space and line terminators
SpaceChars ==
  {9, 10, 11, 12, 13, 32, 160, 5760, 8232, 8233, 8239, 8287, 12288, 65279}
  \cup (8192..8202)

IsSpaceChar(c) == c \in SpaceChars

\* \d
DigitChars == 48..57

\* String.prototype.toLowerCase on the characters of the model: the ASCII
\* capitals map to their small letters, Arabic letters and punctuation have
\* no case
LowerChar(c) == IF c \in 65..90 THEN c + 32 ELSE c

toLowerCase(text) == [i \in 1..Len(text) |-> LowerChar(text[i])]

\* String.prototype.trim
RECURSIVE TrimLeft(_)
TrimLeft(text) ==
  IF text /= <<>> /\ IsSpaceChar(Head(text)) THEN TrimLeft(Tail(text)) ELSE text

RECURSIVE TrimRight(_)
TrimRight(text) ==
  IF text /= <<>> /\ IsSpaceChar(Last(text))
  THEN TrimRight(SubSeq(text, 1, Len(text) - 1)) ELSE text

trim(text) == TrimRight(TrimLeft(text))

RECURSIVE SplitRunsFrom(_, _)
\* the pieces of text from position i on: the piece up to the next run of
\* white space, then the pieces after that run
SplitRunsFrom(text, i) ==
  LET b == SkipNotIn(text, i, SpaceChars)
  IN  IF b > Len(text) THEN <<SubSeq(text, i, Len(text))>>
      ELSE <<SubSeq(text, i, b - 1)>>
           \o SplitRunsFrom(text, SkipIn(text, b, SpaceChars))

\* text.split(/\s+/): the pieces between maximal runs of white space, the
\* empty piece before a leading run and after a trailing one included
SplitOnSpaceRuns(text) == SplitRunsFrom(text, 1)

RECURSIVE SplitCharsFrom(_, _, _)
\* the pieces of text from position i on: the piece up to the next
\* separator, then the pieces after it
SplitCharsFrom(text, seps, i) ==
  LET b == SkipNotIn(text, i, seps)
  IN  IF b > Len(text) THEN <<SubSeq(text, i, Len(text))>>
      ELSE <<SubSeq(text, i, b - 1)>> \o SplitCharsFrom(text, seps, b + 1)

\* text.split(/[...]/) for a class of single characters: every separator
\* character ends a piece
SplitOnChars(text, seps) == SplitCharsFrom(text, seps, 1)

(***************************************************************************)
(* tokenize (server.js 24-30).                                             *)
(***************************************************************************)
\* .replace(/[^\w\s]/g, " ")
ReplaceNonWord(text) ==
  [i \in 1..Len(text) |->
     IF IsWordChar(text[i]) \/ IsSpaceChar(text[i]) THEN text[i] ELSE 32]

NonEmpty(t) == Len(t) > 0

tokenize(text) ==
  SelectSeq(SplitOnSpaceRuns(ReplaceNonWord(toLowerCase(text))), NonEmpty)

(***************************************************************************)
(* JavaScript values as far as the vectors need them.  A value is a record *)
(* [t, v]: a number v, NaN, undefined, a function or object inherited from *)
(* Object.prototype, or a string that is not the text of a number.         *)
(***************************************************************************)
Num(n) == [t |-> "number", v |-> n]
NaN == [t |-> "NaN", v |-> 0]
Undefined == [t |-> "undefined", v |-> 0]
FunctionValue == [t |-> "function", v |-> 0]
ObjectValue == [t |-> "object", v |-> 0]
StringValue == [t |-> "string", v |-> 0]

\* the names of Object.prototype that a token (lower-case \w characters) can
\* spell: "constructor" and "__proto__"
KeyConstructor == <<99, 111, 110, 115, 116, 114, 117, 99, 116, 111, 114>>
KeyProto == <<95, 95, 112, 114, 111, 116, 111, 95, 95>>

\* obj[key] on an object literal {}: an own property, else what the
\* prototype chain gives, else undefined
GetProp(obj, key) ==
  IF key \in DOMAIN obj THEN obj[key]
  ELSE IF key = KeyConstructor THEN FunctionValue
  ELSE IF key = KeyProto THEN ObjectValue
  ELSE Undefined

\* obj[key] = val: assigning a string to __proto__ is ignored by its setter
SetProp(obj, key, val) ==
  IF key = KeyProto THEN obj
  ELSE [k \in DOMAIN obj \cup {key} |-> IF k = key THEN val ELSE obj[k]]

\* x || 0
OrZero(x) ==
  IF x.t \in {"undefined", "NaN"} \/ (x.t = "number" /\ x.v = 0) THEN Num(0) ELSE x

\* x + 1: a number is incremented, anything else is converted to a string
\* and "1" is appended
PlusOne(x) == IF x.t = "number" THEN Num(x.v + 1) ELSE
              IF x.t = "NaN" THEN NaN ELSE StringValue

\* x * y: the operands are converted to numbers; a function, an object or
\* the strings that arise convert to NaN
Times(x, y) ==
  IF x.t = "number" /\ y.t = "number" THEN Num(x.v * y.v) ELSE NaN

\* x + y on numbers and NaN
Plus(x, y) ==
  IF x.t = "number" /\ y.t = "number" THEN Num(x.v + y.v) ELSE NaN

EmptyObject == [k \in {} |-> Undefined]

(***************************************************************************)
(* termFreqVector (server.js 33-39).                                       *)
(***************************************************************************)
RECURSIVE TermFreqFrom(_, _, _)
TermFreqFrom(tokens, i, vec) ==
  IF i > Len(tokens) THEN vec
  ELSE TermFreqFrom(tokens, i + 1,
         SetProp(vec, tokens[i], PlusOne(OrZero(GetProp(vec, tokens[i])))))

termFreqVector(tokens) == TermFreqFrom(tokens, 1, EmptyObject)

(***************************************************************************)
(* cosine (server.js 42-58).  A similarity is a non-negative real of the   *)
(* form dot / sqrt(mag1 * mag2); the model keeps its square as an exact    *)
(* reduced fraction n/d, which orders and compares as the similarity does. *)
(* The rounding of the floating-point square roots and division is not     *)
(* modelled.                                                               *)
(***************************************************************************)
RECURSIVE GCD(_, _)
GCD(a, b) == IF b = 0 THEN a ELSE GCD(b, a % b)

Score(n, d) == [t |-> "number", n |-> n \div GCD(n, d), d |-> d \div GCD(n, d)]
ScoreNaN == [t |-> "NaN", n |-> 0, d |-> 1]
ScoreZero == Score(0, 1)

\* a > b on similarities: false when either is NaN
ScoreGt(a, b) == a.t = "number" /\ b.t = "number" /\ a.n * b.d > b.n * a.d

RECURSIVE SumOver(_, _)
\* keys.forEach(key => acc += term(key)): the sum does not depend on the order
SumOver(keys, term) ==
  IF keys = {} THEN Num(0)
  ELSE LET k == CHOOSE x \in keys : TRUE
       IN  Plus(term[k], SumOver(keys \ {k}, term))

cosine(vec1, vec2) ==
  LET keys == DOMAIN vec1 \cup DOMAIN vec2
      v1 == [k \in keys |-> OrZero(GetProp(vec1, k))]
      v2 == [k \in keys |-> OrZero(GetProp(vec2, k))]
      dotProduct == SumOver(keys, [k \in keys |-> Times(v1[k], v2[k])])
      mag1 == SumOver(keys, [k \in keys |-> Times(v1[k], v1[k])])
      mag2 == SumOver(keys, [k \in keys |-> Times(v2[k], v2[k])])
      \* denominator = sqrt(mag1) * sqrt(mag2), kept as its square
      denominator2 == Times(mag1, mag2)
  IN  IF denominator2.t = "number" /\ denominator2.v = 0 THEN ScoreZero
      ELSE IF dotProduct.t = "number" /\ denominator2.t = "number"
           THEN Score(dotProduct.v * dotProduct.v, denominator2.v)
           ELSE ScoreNaN

(***************************************************************************)
(* The knowledge base (server.js 63-99).  DemoIndex is the INDEX literal   *)
(* of the source with each text shortened: the Latin words, the sentence   *)
(* boundaries and the punctuation are those of the source text, and the    *)
(* Arabic running text between them is cut to a few words (every sentence  *)
(* stays longer than 20 characters, and no text holds a workflow, problem, *)
(* solution or price keyword, a number or a URL, as in the source).  The   *)
(* source says the literal is a stand-in for an index built from           *)
(* documents, so the model also runs the server over an empty index and    *)
(* over two small ones whose texts reach the other branches of the code.   *)
(* A file is the sequence of the segments of its path.                     *)
(***************************************************************************)
Chunk(id, file, chunk_index, text) ==
  [id |-> id, file |-> file, chunk_index |-> chunk_index, text |-> text,
   vec |-> EmptyObject]

\* "Zoho CRM <3 words> (CRM) <1 word>. <1 word> Zoho CRM <3 words>."
TextZoho1 ==
  <<90,111,104,111,32,67,82,77,32,1607,1608,32,1606,1592,1575,1605,32,1573,
    1583,1575,1585,1577,32,40,67,82,77,41,32,1575,1604,1588,1575,1605,1604,
    46,32,1610,1608,1601,1585,32,90,111,104,111,32,67,82,77,32,1571,1583,
    1608,1575,1578,32,1602,1608,1610,1577,32,1604,1604,1593,1605,1604,1575,
    1569,46>>
\* "<3 words> Zoho CRM: <3 words><arabic comma> <1 word>."
TextZoho2 ==
  <<1605,1606,32,1571,1607,1605,32,1605,1610,1586,1575,1578,32,90,111,104,
    111,32,67,82,77,58,32,1573,1583,1575,1585,1577,32,1580,1607,1575,1578,
    32,1575,1604,1575,1578,1589,1575,1604,1548,32,1575,1604,1578,1602,1575,
    1585,1610,1585,46>>
\* "Zoho Books <4 words>. <1 word> Zoho Books <2 words>."
TextZoho3 ==
  <<90,111,104,111,32,66,111,111,107,115,32,1607,1608,32,1576,1585,1606,
    1575,1605,1580,32,1605,1581,1575,1587,1576,1577,32,1587,1581,1575,1576,
    1610,46,32,1610,1583,1593,1605,32,90,111,104,111,32,66,111,111,107,115,
    32,1573,1606,1588,1575,1569,32,1575,1604,1601,1608,1575,1578,1610,1585,
    46>>
\* "Zoho Inventory <4 words>. <5 words>."
TextZoho4 ==
  <<90,111,104,111,32,73,110,118,101,110,116,111,114,121,32,1607,1608,32,
    1606,1592,1575,1605,32,1573,1583,1575,1585,1577,32,1575,1604,1605,1582,
    1586,1608,1606,46,32,1610,1608,1601,1585,32,1578,1602,1575,1585,1610,
    1585,32,1601,1608,1585,1610,1577,32,1593,1606,32,1575,1604,1605,1582,
    1586,1608,1606,46>>
\* "<2 words> Zoho CRM<arabic comma> <2 words>: <2 words> Zoho <1 word>. <4 words>."
TextZoho5 ==
  <<1604,1604,1576,1583,1569,32,1605,1593,32,90,111,104,111,32,67,82,77,
    1548,32,1578,1581,1578,1575,1580,32,1573,1604,1609,58,32,1573,1606,1588,
    1575,1569,32,1581,1587,1575,1576,32,90,111,104,111,32,1605,1580,1575,
    1606,1610,46,32,1610,1605,1603,1606,1603,32,1576,1583,1569,32,1575,1604,
    1606,1587,1582,1577,32,1575,1604,1605,1580,1575,1606,1610,1577,46>>

DemoIndex ==
  << Chunk("zoho_1", <<"zoho-crm-intro.md">>, 0, TextZoho1),
     Chunk("zoho_2", <<"zoho-crm-features.md">>, 0, TextZoho2),
     Chunk("zoho_3", <<"zoho-books-accounting.md">>, 0, TextZoho3),
     Chunk("zoho_4", <<"zoho-inventory-management.md">>, 0, TextZoho4),
     Chunk("zoho_5", <<"zoho-getting-started.md">>, 0, TextZoho5) >>

\* "1 a.2 b.3 c."
TextSteps == <<49, 32, 97, 46, 50, 32, 98, 46, 51, 32, 99, 46>>
\* "<khata'> x. <hall> <thumma> y.": a problem keyword, then a sentence with a
\* solution keyword and a workflow keyword
TextProblem ==
  <<1582, 1591, 1571, 32, 120, 46, 32, 1581, 1604, 32, 1579, 1605, 32, 121, 46>>
\* "https://z.co 5 USD"
TextPrice ==
  <<104, 116, 116, 112, 115, 58, 47, 47, 122, 46, 99, 111, 32, 53, 32, 85, 83, 68>>

GuideIndex ==
  << Chunk("kb_1", <<"kb", "steps.md">>, 0, TextSteps),
     Chunk("kb_2", <<"kb", "steps.md">>, 1, TextProblem),
     Chunk("kb_3", <<"pricing.md">>, 0, TextPrice) >>

\* "zz"
TextOther == <<122, 122>>
\* "a c c c c c c c c c c": one a among ten c
TextSparse ==
  <<97, 32, 99, 32, 99, 32, 99, 32, 99, 32, 99, 32, 99, 32, 99, 32, 99, 32, 99,
    32, 99>>

SparseIndex ==
  << Chunk("s_1", <<"other.md">>, 0, TextOther),
     Chunk("s_2", <<"sparse.md">>, 0, TextSparse),
     Chunk("s_3", <<"sparse.md">>, 1, TextSparse) >>

Corpora == << <<>>, DemoIndex, GuideIndex, SparseIndex >>

(***************************************************************************)
(* Requests: the body of POST /ask (server.js 109).  A question is given   *)
(* or not; industry and scenario are strings, "" when not given (the code  *)
(* tests them for truth only); top_k is an integer or not given.           *)
(***************************************************************************)

\* "zoho crm"
QZohoCrm == <<122, 111, 104, 111, 32, 99, 114, 109>>
\* "Books"
QBooks == <<66, 111, 111, 107, 115>>
\* "asdkj qweqwe"
QNoOverlap == <<97, 115, 100, 107, 106, 32, 113, 119, 101, 113, 119, 101>>
\* "?"
QPunct == <<63>>
\* "a b b b b b b b b b b"
QTiny ==
  <<97, 32, 98, 32, 98, 32, 98, 32, 98, 32, 98, 32, 98, 32, 98, 32, 98, 32, 98,
    32, 98>>
\* "a b"
QAb == <<97, 32, 98>>
\* "usd x"
QUsdX == <<117, 115, 100, 32, 120>>
\* "Zoho <nizam>": a Latin word and an Arabic word
QArabic == <<90, 111, 104, 111, 32, 1606, 1592, 1575, 1605>>

QuestionTexts ==
  { <<>>, QZohoCrm, QBooks, QNoOverlap, QPunct, QTiny, QAb, QUsdX, QArabic,
    KeyConstructor }

Questions ==
  {[given |-> FALSE, text |-> <<>>]} \cup
  {[given |-> TRUE, text |-> q] : q \in QuestionTexts}

TopKs == {[given |-> FALSE, n |-> 0]} \cup {[given |-> TRUE, n |-> k] : k \in (-1)..MaxTopK}

\* no industry and scenario, or an industry the label table knows and a
\* scenario it does not
Labelled == { <<"", "">>, <<"retail", "pilot">> }

Requests ==
  {[question |-> q, industry |-> l[1], scenario |-> l[2], top_k |-> k] :
     q \in Questions, l \in Labelled, k \in TopKs}

(***************************************************************************)
(* Local answer synthesis (server.js 167-492).  The answer is a markdown   *)
(* string built by appending one block after the other; the model keeps    *)
(* it as the sequence of its blocks.  A block is [sec, kind, items]: the   *)
(* section it renders, whether its body is the fixed text of the source    *)
(* ("fixed"), text extracted from the passages ("extracted") or the        *)
(* generic text used when nothing is extracted ("fallback"), and the       *)
(* extracted items.                                                        *)
(***************************************************************************)
Block(sec, kind, items) == [sec |-> sec, kind |-> kind, items |-> items]

\* chunks.map(c => c.text).join(" ")
AllText(chunks) == Join([i \in 1..Len(chunks) |-> chunks[i].text], <<32>>)

\* path.basename: the last segment of the path
basename(file) == Last(file)

\* . and the ideographic full stop
FullStops == {46, 12290}
\* . ideographic full stop, fullwidth exclamation mark, Arabic question mark
SentenceEnds == {46, 12290, 65281, 1567}

LongSentence(sent) == Len(trim(sent)) > 20

generateSummary(chunks) ==
  LET sentences == SplitOnChars(AllText(chunks), SentenceEnds)
      topSentences == SelectSeq(SubSeq(sentences, 1, Min(3, Len(sentences))),
                                LongSentence)
  IN  IF topSentences /= <<>>
      THEN Block("summary", "extracted",
                 [i \in 1..Len(topSentences) |-> trim(topSentences[i])])
      ELSE Block("summary", "fallback", <<>>)

\* the seven workflow keywords (server.js 264)
WorkflowKeywords ==
  << <<1610, 1602, 1608, 1605>>, <<1579, 1605>>, <<1576, 1593, 1583>>,
     <<1610, 1578, 1605>>, <<1610, 1587, 1578, 1604, 1605>>,
     <<1610, 1587, 1604, 1605>>, <<1610, 1585, 1575, 1580, 1593>> >>

HasWorkflowKeyword(sent) == IncludesSome(sent, WorkflowKeywords)

RECURSIVE WorkflowSentences(_, _)
WorkflowSentences(chunks, i) ==
  IF i > Len(chunks) THEN <<>>
  ELSE LET hits == SelectSeq(SplitOnChars(chunks[i].text, FullStops),
                             HasWorkflowKeyword)
       IN  [j \in 1..Len(hits) |-> trim(hits[j])] \o WorkflowSentences(chunks, i + 1)

generateWorkflowNoFallback(chunks) ==
  LET workflowSentences == WorkflowSentences(chunks, 1)
  IN  Block("workflow", "extracted",
            SubSeq(workflowSentences, 1, Min(5, Len(workflowSentences))))

generateWorkflow(chunks) ==
  LET workflowSentences == WorkflowSentences(chunks, 1)
  IN  IF Len(workflowSentences) > 0
      THEN Block("workflow", "extracted",
                 SubSeq(workflowSentences, 1, Min(5, Len(workflowSentences))))
      ELSE Block("workflow", "fallback", <<>>)

\* the keys of zohoModules in lower case (server.js 297-305), in the order of
\* the object literal
ZohoModules ==
  << [key |-> "CRM", lower |-> <<99, 114, 109>>],
     [key |-> "Books", lower |-> <<98, 111, 111, 107, 115>>],
     [key |-> "Inventory", lower |-> <<105, 110, 118, 101, 110, 116, 111, 114, 121>>],
     [key |-> "Desk", lower |-> <<100, 101, 115, 107>>],
     [key |-> "People", lower |-> <<112, 101, 111, 112, 108, 101>>],
     [key |-> "Projects", lower |-> <<112, 114, 111, 106, 101, 99, 116, 115>>],
     [key |-> "Campaigns", lower |-> <<99, 97, 109, 112, 97, 105, 103, 110, 115>>] >>

RECURSIVE ModulesFrom(_, _)
ModulesFrom(lowered, i) ==
  IF i > Len(ZohoModules) THEN <<>>
  ELSE (IF Includes(lowered, ZohoModules[i].lower)
        THEN <<ZohoModules[i].key>> ELSE <<>>) \o ModulesFrom(lowered, i + 1)

identifyModules(chunks) ==
  LET modules == ModulesFrom(toLowerCase(AllText(chunks)), 1)
  IN  IF modules = <<>> THEN Block("modules", "fallback", <<>>)
      ELSE Block("modules", "extracted", modules)

NoMatch == [ok |-> FALSE, end |-> 0, groups |-> <<>>]

\* . and line feed: the characters [^.\n] leaves out
StepEnds == {46, 10}

\* /(\d+)[.)]?\s+([^.\n]+)/ tried at position i.  The digits and the white
\* space are taken greedily; the last group needs one character that is
\* neither "." nor a line feed, and the white-space run gives characters back
\* until one can start it (at least one white-space character stays)
NumberedAt(text, i) ==
  LET j == SkipIn(text, i, DigitChars)
      p == IF j <= Len(text) /\ text[j] \in {46, 41} THEN j + 1 ELSE j
      k == SkipIn(text, p, SpaceChars)
      starts == {x \in (p + 1)..k : x <= Len(text) /\ text[x] \notin StepEnds}
  IN  IF j = i \/ starts = {} THEN NoMatch
      ELSE LET x == CHOOSE y \in starts : \A z \in starts : z <= y
               e == SkipNotIn(text, x, StepEnds)
           IN  [ok |-> TRUE, end |-> e,
                groups |-> <<SubSeq(text, i, j - 1), SubSeq(text, x, e - 1)>>]

RECURSIVE NumberedMatches(_, _)
\* [...text.matchAll(numberedPattern)]: the matches from position i on, each
\* search starting where the match before it ended
NumberedMatches(text, i) ==
  LET found == {j \in i..Len(text) : NumberedAt(text, j).ok}
  IN  IF found = {} THEN <<>>
      ELSE LET m == NumberedAt(text, MinOf(found))
           IN  <<m.groups>> \o NumberedMatches(text, m.end)

generateStepByStep(chunks) ==
  LET matches == NumberedMatches(AllText(chunks), 1)
  IN  IF Len(matches) > 2
      THEN Block("steps", "extracted",
                 [i \in 1..Min(6, Len(matches)) |->
                    <<matches[i][1], trim(matches[i][2])>>])
      ELSE Block("steps", "fallback", <<>>)

\* server.js 362-363
ProblemKeywords ==
  << <<1605, 1588, 1603, 1604, 1577>>, <<1582, 1591, 1571>>,
     <<1578, 1581, 1583, 1610>>, <<1589, 1593, 1608, 1576, 1577>>,
     <<1593, 1583, 1605>> >>
SolutionKeywords ==
  << <<1581, 1604>>, <<1605, 1593, 1575, 1604, 1580, 1577>>,
     <<1578, 1589, 1581, 1610, 1581>>, <<1578, 1581, 1587, 1610, 1606>> >>

RECURSIVE ProblemSolutions(_, _)
ProblemSolutions(sentences, idx) ==
  IF idx > Len(sentences) THEN <<>>
  ELSE LET nextSent == IF idx + 1 <= Len(sentences)
                       THEN trim(sentences[idx + 1]) ELSE <<>>
       IN  (IF IncludesSome(sentences[idx], ProblemKeywords)
               /\ IncludesSome(nextSent, SolutionKeywords)
            THEN << [problem |-> trim(sentences[idx]), solution |-> nextSent] >>
            ELSE <<>>) \o ProblemSolutions(sentences, idx + 1)

generateProblemSolutions(chunks) ==
  LET problemSolutions ==
        ProblemSolutions(SplitOnChars(AllText(chunks), FullStops), 1)
  IN  IF Len(problemSolutions) > 0
      THEN Block("problems", "extracted",
                 SubSeq(problemSolutions, 1, Min(3, Len(problemSolutions))))
      ELSE Block("problems", "fallback", <<>>)

generateExpectedResults(chunks) == Block("results", "fixed", <<>>)

\* "http", "s", "://"
LitHttp == <<104, 116, 116, 112>>
LitColonSlashes == <<58, 47, 47>>

\* /(https?:\/\/[^\s]+)/ tried at position i
UrlAt(text, i) ==
  LET q == IF MatchesAt(text, i + 4, <<115>>) THEN i + 5 ELSE i + 4
      e == SkipNotIn(text, q + 3, SpaceChars)
  IN  IF MatchesAt(text, i, LitHttp) /\ MatchesAt(text, q, LitColonSlashes)
         /\ e > q + 3
      THEN [ok |-> TRUE, end |-> e, groups |-> SubSeq(text, i, e - 1)]
      ELSE NoMatch

RECURSIVE UrlMatches(_, _)
\* allText.match(urlPattern) || []
UrlMatches(text, i) ==
  LET found == {j \in i..Len(text) : UrlAt(text, j).ok}
  IN  IF found = {} THEN <<>>
      ELSE LET m == UrlAt(text, MinOf(found))
           IN  <<m.groups>> \o UrlMatches(text, m.end)

extractTechnicalDetails(chunks) ==
  LET urls == UrlMatches(AllText(chunks), 1)
  IN  Block("technical", "fixed", SubSeq(urls, 1, Min(3, Len(urls))))

\* the currency words of the price pattern in lower case: the Arabic word
\* for pound, "egp", "dollar", "usd"
CurrencyWords ==
  << <<1580, 1606, 1610, 1607>>, <<101, 103, 112>>,
     <<100, 111, 108, 108, 97, 114>>, <<117, 115, 100>> >>
\* the price keywords: the Arabic words for price and cost, "pricing", "price"
PriceKeywords ==
  << <<1587, 1593, 1585>>, <<1578, 1603, 1604, 1601, 1577>>,
     <<112, 114, 105, 99, 105, 110, 103>>, <<112, 114, 105, 99, 101>> >>

\* /(\d+)\s*(...|EGP|dollar|USD)/i tried at position i of text, whose
\* lower-case form is lowered: the i flag compares the ASCII letters without
\* case, and the digits and white space have none
PriceAt(text, lowered, i) ==
  LET j == SkipIn(text, i, DigitChars)
      k == SkipIn(text, j, SpaceChars)
      words == {w \in 1..Len(CurrencyWords) : MatchesAt(lowered, k, CurrencyWords[w])}
  IN  IF j = i \/ words = {} THEN NoMatch
      ELSE LET w == CHOOSE x \in words : \A y \in words : x <= y
               e == k + Len(CurrencyWords[w])
           IN  [ok |-> TRUE, end |-> e, groups |-> SubSeq(text, i, e - 1)]

RECURSIVE PriceMatches(_, _, _)
\* allText.match(pricePattern) || []
PriceMatches(text, lowered, i) ==
  LET found == {j \in i..Len(text) : PriceAt(text, lowered, j).ok}
  IN  IF found = {} THEN <<>>
      ELSE LET m == PriceAt(text, lowered, MinOf(found))
           IN  <<m.groups>> \o PriceMatches(text, lowered, m.end)

containsPricingInfo(chunks) ==
  LET allText == AllText(chunks)
      lowered == toLowerCase(allText)
  IN  \/ \E i \in 1..Len(allText) : PriceAt(allText, lowered, i).ok
      \/ IncludesSome(lowered, PriceKeywords)

extractPricingInfo(chunks) ==
  LET allText == AllText(chunks)
      prices == PriceMatches(allText, toLowerCase(allText), 1)
  IN  Block("pricing", "fixed", SubSeq(prices, 1, Min(5, Len(prices))))

\* server.js 470-492: the label of a known code (here its English gloss),
\* the code itself when it is not known
IndustryCodes == {"retail", "logistics", "fintech", "tourism", "realestate", "health"}
ScenarioCodes == {"discovery", "objection", "value", "recommend", "workflow", "closing"}

getIndustryLabel(industry) ==
  IF industry \in IndustryCodes THEN <<"label", industry>> ELSE <<"raw", industry>>

getScenarioLabel(scenario) ==
  IF scenario \in ScenarioCodes THEN <<"label", scenario>> ELSE <<"raw", scenario>>

\* the footer: one line per chunk with the name of its file, its chunk
\* index and its score (rendered as a percentage; the rendering is not
\* modelled)
SourceLines(relevantChunks) ==
  [i \in 1..Len(relevantChunks) |->
     [file |-> basename(relevantChunks[i].file),
      chunk_index |-> relevantChunks[i].chunk_index,
      score |-> relevantChunks[i].score]]

buildComprehensiveAnswer(question, relevantChunks, industry, scenario) ==
  << Block("header", "fixed",
           <<question>>
           \o (IF industry /= "" THEN <<getIndustryLabel(industry)>> ELSE <<>>)
           \o (IF scenario /= "" THEN <<getScenarioLabel(scenario)>> ELSE <<>>)),
     generateSummary(relevantChunks),
     Block("explanation", "fixed", <<>>),
     generateWorkflow(relevantChunks),
     identifyModules(relevantChunks),
     generateStepByStep(relevantChunks),
     generateProblemSolutions(relevantChunks),
     generateExpectedResults(relevantChunks),
     extractTechnicalDetails(relevantChunks) >>
  \o (IF containsPricingInfo(relevantChunks)
      THEN <<extractPricingInfo(relevantChunks)>> ELSE <<>>)
  \o << Block("next_steps", "fixed", <<>>),
        Block("sources", "fixed", SourceLines(relevantChunks)) >>

(***************************************************************************)
(* POST /ask (server.js 108-159).                                          *)
(***************************************************************************)
\* the default of top_k in the destructuring of the request body
DefaultTopK == 6

\* score > 0.01 on the squared score: n/d > 1/10000; false for NaN
AboveThreshold(score) == score.t = "number" /\ score.n * 10000 > score.d

IsRelevant(s) == AboveThreshold(s.score)

\* INDEX.map(c => ({id, file, chunk_index, text, score: cosine(qvec, c.vec)}))
ScoreAll(index, qvec) ==
  [i \in 1..Len(index) |->
     [id |-> index[i].id, file |-> index[i].file,
      chunk_index |-> index[i].chunk_index, text |-> index[i].text,
      score |-> cosine(qvec, index[i].vec)]]

\* x is put before the first element it must precede by the comparator
\* (a, b) => b.score - a.score, that is before the first element with a
\* smaller score; a comparison with NaN gives NaN, which sort takes as 0
InsertSorted(sorted, x) ==
  LET before == {i \in 1..Len(sorted) : ScoreGt(x.score, sorted[i].score)}
      at == IF before = {} THEN Len(sorted) + 1
            ELSE CHOOSE i \in before : \A j \in before : i <= j
  IN  SubSeq(sorted, 1, at - 1) \o <<x>> \o SubSeq(sorted, at, Len(sorted))

RECURSIVE SortFrom(_, _, _)
SortFrom(items, i, sorted) ==
  IF i > Len(items) THEN sorted
  ELSE SortFrom(items, i + 1, InsertSorted(sorted, items[i]))

\* Array.prototype.sort with that comparator: stable (ECMAScript 2019), so the
\* order is that of inserting the elements one by one.  The comparator is
\* consistent on every array the model sorts: the scores of one query are all
\* numbers or all NaN
SortByScore(items) == SortFrom(items, 1, <<>>)

\* JSON.stringify of a score: NaN is written as null
ToJson(score) == IF score.t = "NaN" THEN [t |-> "null", n |-> 0, d |-> 1] ELSE score

\* sources: relevant.map(s => ({file: path.basename(s.file), chunk_index, score}))
Sources(relevant) ==
  [i \in 1..Len(relevant) |->
     [file |-> basename(relevant[i].file),
      chunk_index |-> relevant[i].chunk_index,
      score |-> ToJson(relevant[i].score)]]

\* what one run of the handler leaves: the response, the functions it called
\* in order, its locals scored, relevant and lowConfidence where it returned,
\* and the INDEX array afterwards
Outcome(res, calls, scored, relevant, lowConfidence, index) ==
  [res |-> res, calls |-> calls, scored |-> scored, relevant |-> relevant,
   lowConfidence |-> lowConfidence, index |-> index]

QuestionOnlyEmpty(r) == r.question.given /\ r.question.text = <<>>

\* !question: undefined and the empty string are both refused
QuestionMissing(r) == ~r.question.given \/ r.question.text = <<>>

InsertBeforeTies(sorted, x) ==
  LET before == {i \in 1..Len(sorted) : ~ScoreGt(sorted[i].score, x.score)}
      at == IF before = {} THEN Len(sorted) + 1
            ELSE CHOOSE i \in before : \A j \in before : i <= j
  IN  SubSeq(sorted, 1, at - 1) \o <<x>> \o SubSeq(sorted, at, Len(sorted))

RECURSIVE SortFromUnstable(_, _, _)
SortFromUnstable(items, i, sorted) ==
  IF i > Len(items) THEN sorted
  ELSE SortFromUnstable(items, i + 1, InsertBeforeTies(sorted, items[i]))

RankAllUnstable(items) == SortFromUnstable(items, 1, <<>>)

\* .sort((a, b) => b.score - a.score)
RankAll(items) == SortByScore(items)

IndexSortedInPlace(index, sortedAll) ==
  [i \in 1..Len(index) |->
     index[CHOOSE j \in 1..Len(index) : index[j].id = sortedAll[i].id]]

\* INDEX.map builds a new array: sort and slice act on it, INDEX stays as it is
IndexAfterRanking(index, sortedAll) == index

FlaggedEmptyBody ==
  [answer_ar |-> <<Block("no_information", "fixed", <<>>)>>,
   low_confidence |-> TRUE, sources |-> <<>>]

\* the body sent when nothing was scored: the fixed "not enough information"
\* text and no sources (server.js 136-139)
EmptyBody ==
  [answer_ar |-> <<Block("no_information", "fixed", <<>>)>>, sources |-> <<>>]

LastChunk(scored) == scored[Len(scored)]

\* relevant.push(scored[0]): the chunk the fallback answers from
FallbackChunk(scored) == scored[1]

Handle(index, r) ==
  IF QuestionMissing(r)
  THEN Outcome([status |-> 400, body |-> [error |-> "question required"]],
               <<>>, <<>>, <<>>, FALSE, index)
  ELSE
    LET top_k == IF r.top_k.given THEN r.top_k.n ELSE DefaultTopK
        qtokens == tokenize(r.question.text)
        qvec == termFreqVector(qtokens)
        sortedAll == RankAll(ScoreAll(index, qvec))
        scored == Slice0(sortedAll, top_k)
        filtered == SelectSeq(scored, IsRelevant)
        after == IndexAfterRanking(index, sortedAll)
        calls == <<"tokenize", "termFreqVector">>
                 \o [i \in 1..Len(index) |-> "cosine"] \o <<"sort">>
    IN  IF Len(filtered) = 0 /\ Len(scored) = 0
        THEN Outcome([status |-> 200, body |-> EmptyBody],
                     calls, scored, filtered, FALSE, after)
        ELSE
          LET lowConfidence == Len(filtered) = 0
              relevant == IF lowConfidence THEN <<FallbackChunk(scored)>>
                          ELSE filtered
              answer == buildComprehensiveAnswer(r.question.text, relevant,
                                                 r.industry, r.scenario)
          IN  Outcome([status |-> 200,
                       body |-> [answer_ar |-> answer,
                                 low_confidence |-> lowConfidence,
                                 sources |-> Sources(relevant)]],
                      Append(calls, "buildComprehensiveAnswer"),
                      scored, relevant, lowConfidence, after)

(***************************************************************************)
(* The server.  kb names the index literal the process was built with;     *)
(* INDEX is the array; phase is "loading" until the start-up pass has      *)
(* computed the vectors.  A request is received (inflight holds it), then  *)
(* its handler runs to its response: the handler never awaits, so the      *)
(* event loop runs one handler at a time and the requests are served in    *)
(* the order they arrive, which is arbitrary.  req is the request being    *)
(* or last served, res its response and run what its handler did; nreq     *)
(* tells whether no, one or more requests have been served (0, 1, 2).      *)
(* unit holds the argument and result of a function applied on its own,    *)
(* orch the state of the answer orchestrator of the specification.         *)
(***************************************************************************)
VARIABLES kb, INDEX, phase, inflight, req, res, run, nreq, unit, orch

vars == <<kb, INDEX, phase, inflight, req, res, run, nreq, unit, orch>>

NoRequest == [question |-> [given |-> FALSE, text |-> <<>>], industry |-> "",
              scenario |-> "", top_k |-> [given |-> FALSE, n |-> 0]]
NoResponse == [status |-> 0, body |-> [error |-> ""]]
NoRun == Outcome(NoResponse, <<>>, <<>>, <<>>, FALSE, <<>>)
NoUnit == [fn |-> "none"]
NoOrch == [state |-> "NONE"]

Init ==
  /\ kb \in 1..Len(Corpora)
  /\ INDEX = Corpora[kb]
  /\ phase = "loading"
  /\ inflight = FALSE
  /\ req = NoRequest
  /\ res = NoResponse
  /\ run = NoRun
  /\ nreq = 0
  /\ unit = NoUnit
  /\ orch = NoOrch

\* INDEX.forEach(chunk => { chunk.vec = termFreqVector(tokenize(chunk.text)) })
Vectorize(index) ==
  [i \in 1..Len(index) |->
     [index[i] EXCEPT !.vec = termFreqVector(tokenize(index[i].text))]]

\* server.js 101-105 and app.listen: the start-up pass, then the server listens
Startup ==
  /\ phase = "loading"
  /\ INDEX' = Vectorize(INDEX)
  /\ phase' = "listening"
  /\ UNCHANGED <<kb, inflight, req, res, run, nreq, unit, orch>>

\* a client posts r to /ask
Receive(r) ==
  /\ phase = "listening"
  /\ ~inflight
  /\ inflight' = TRUE
  /\ req' = r
  /\ res' = NoResponse
  /\ run' = NoRun
  /\ UNCHANGED <<kb, INDEX, phase, nreq, unit, orch>>

\* the handler of POST /ask runs on the request received, to its response
Ask ==
  /\ phase = "listening"
  /\ inflight
  /\ LET h == Handle(INDEX, req)
     IN  /\ INDEX' = h.index
         /\ res' = h.res
         /\ run' = h
  /\ inflight' = FALSE
  /\ nreq' = IF nreq < 2 THEN nreq + 1 ELSE nreq
  /\ UNCHANGED <<kb, phase, req, unit, orch>>

Next == Startup \/ (\E r \in Requests : Receive(r)) \/ Ask

Spec == Init /\ [][Next]_vars

(***************************************************************************)
(* What the claims speak of.                                               *)
(***************************************************************************)
\* the index as the start-up pass leaves it, for each literal
VectorizedCorpora == [k \in 1..Len(Corpora) |-> Vectorize(Corpora[k])]

\* a request has been handled to its response, which res holds
Served == phase = "listening" /\ ~inflight /\ nreq > 0

\* the response carries a synthesized answer
Answered ==
  Served /\ res.status = 200 /\ "buildComprehensiveAnswer" \in
                                { run.calls[i] : i \in 1..Len(run.calls) }

EffectiveTopK == IF req.top_k.given THEN req.top_k.n ELSE DefaultTopK

\* the score of the passage at position p of the index against the question
\* of req
ScoreOfPassage(p) ==
  cosine(termFreqVector(tokenize(req.question.text)), INDEX[p].vec)

\* score <= 0.01
AtMostThreshold(score) == score.t = "number" /\ score.n * 10000 <= score.d

\* the passage at p ranks before the one at q: its score is greater, or it
\* is not smaller and p comes first in the corpus
RanksBefore(sp, p, sq, q) == ScoreGt(sp, sq) \/ (~ScoreGt(sq, sp) /\ p < q)

\* the position in the index literal of the passage an entry was made from
PositionOf(entry) ==
  CHOOSE p \in 1..Len(Corpora[kb]) : Corpora[kb][p].id = entry.id

\* the envelope's source entry of the passage at position p
SourceOfPassage(p) ==
  [file |-> Last(INDEX[p].file), chunk_index |-> INDEX[p].chunk_index,
   score |-> ScoreOfPassage(p)]

AllScoresLow ==
  /\ Served
  /\ req.question.given /\ req.question.text /= <<>>
  /\ Len(INDEX) > 0
  /\ \A p \in 1..Len(INDEX) : AtMostThreshold(ScoreOfPassage(p))

OneSourceTheBest ==
  /\ res.status = 200
  /\ "low_confidence" \in DOMAIN res.body
  /\ res.body.low_confidence = TRUE
  /\ Len(res.body.sources) = 1
  /\ \E b \in 1..Len(INDEX) :
        /\ \A p \in 1..Len(INDEX) :
              p /= b => RanksBefore(ScoreOfPassage(b), b, ScoreOfPassage(p), p)
        /\ res.body.sources[1] = SourceOfPassage(b)

\* C1 as stated: for every request with a non-empty question against a
\* non-empty corpus in which every passage scores <= 0.01, the response has
\* exactly one source, the highest-ranked passage (the first of the corpus
\* when all scores are equal), and low_confidence is true.
C1_AsStated == AllScoresLow => OneSourceTheBest

\* C1 amended: the same for the requests whose top_k is at least 1 (or not
\* given, when it is 6).
C1_FallbackWithTopK == (AllScoresLow /\ EffectiveTopK >= 1) => OneSourceTheBest

\* C1's case: every score is at most 0.01, one of them is positive, and the
\* source returned is not the first passage of the corpus
C1_Witness ==
  /\ AllScoresLow /\ EffectiveTopK >= 1
  /\ \E p \in 1..Len(INDEX) : ScoreGt(ScoreOfPassage(p), ScoreZero)
  /\ res.status = 200
  /\ res.body.sources /= <<>>
  /\ res.body.sources[1].file /= Last(INDEX[1].file)

C3_RankingStable ==
  (Served /\ ~QuestionMissing(req) /\ EffectiveTopK >= 1)
  => LET L == run.scored
         n == Len(Corpora[kb])
         pos == [i \in 1..Len(L) |-> PositionOf(L[i])]
         sc == [p \in 1..n |->
                  cosine(termFreqVector(tokenize(req.question.text)),
                         VectorizedCorpora[kb][p].vec)]
     IN  /\ Len(L) = Min(EffectiveTopK, n)
         /\ \A i \in 1..Len(L) :
               /\ \E p \in 1..n : Corpora[kb][p].id = L[i].id
               /\ L[i].score = sc[pos[i]]
               /\ L[i].text = Corpora[kb][pos[i]].text
         /\ \A i, j \in 1..Len(L) :
               i < j => RanksBefore(sc[pos[i]], pos[i], sc[pos[j]], pos[j])
         /\ \A p \in 1..n :
               (\A i \in 1..Len(L) : pos[i] /= p)
               => \A i \in 1..Len(L) : RanksBefore(sc[pos[i]], pos[i], sc[p], p)

\* C3's case: a second ranking or later, cut by top_k, whose first entry is
\* not the first passage of the corpus and which holds two entries of equal
\* score
C3_Witness ==
  /\ Served /\ ~QuestionMissing(req) /\ nreq = 2
  /\ EffectiveTopK >= 1 /\ EffectiveTopK < Len(INDEX)
  /\ Len(run.scored) >= 2
  /\ run.scored[1].id /= INDEX[1].id
  /\ \E i, j \in 1..Len(run.scored) :
        i /= j /\ run.scored[i].score = run.scored[j].score

\* C5: a request with no question is answered at once with the input error:
\* nothing is tokenized, scored, ranked or synthesized for it, and the index
\* is as the start-up pass left it.
C5_MissingQuestion ==
  (Served /\ ~req.question.given)
  => /\ res = [status |-> 400, body |-> [error |-> "question required"]]
     /\ run.calls = <<>>
     /\ run.scored = <<>>
     /\ run.relevant = <<>>
     /\ INDEX = VectorizedCorpora[kb]

\* C5's case: a request without a question refused after an earlier request
C5_Witness ==
  Served /\ ~req.question.given /\ nreq = 2 /\ INDEX /= <<>> /\ res.status = 400

\* C6: once the start-up pass is done no step changes the index, and the
\* response to a request is what the handler gives for that request on the
\* index as the start-up pass left it, whatever requests came before.
C6_IndexReadOnly ==
  /\ [][phase = "listening" => INDEX' = INDEX]_vars
  /\ [](Served => /\ INDEX = VectorizedCorpora[kb]
                  /\ res = Handle(VectorizedCorpora[kb], req).res)

\* C6's case: a second request or later whose ranking reordered the passages
C6_Witness ==
  /\ Served /\ nreq = 2 /\ res.status = 200
  /\ Len(run.scored) >= 2
  /\ run.scored[1].id /= INDEX[1].id

(***************************************************************************)
(* The structure of a synthesized answer.                                  *)
(***************************************************************************)
\* the sections the answer must hold once each, in this order
RequiredSections ==
  <<"header", "summary", "workflow", "modules", "steps", "problems",
    "results", "technical", "next_steps", "sources">>

\* the sections whose body is extracted from the passages
ExtractionSections == {"summary", "workflow", "modules", "steps", "problems"}

IsRequiredSection(block) ==
  \E i \in 1..Len(RequiredSections) : RequiredSections[i] = block.sec

\* the block of section sec in the answer
BlockOf(answer, sec) ==
  answer[CHOOSE i \in 1..Len(answer) : answer[i].sec = sec]

HasSection(answer, sec) == \E i \in 1..Len(answer) : answer[i].sec = sec

\* a passage of the retrieval result holds one of the keywords
SomeTextIncludes(chunks, kws) ==
  \E c \in 1..Len(chunks) : IncludesSome(chunks[c].text, kws)

\* a passage holds the name of a product module, in any case
SomeTextNamesModule(chunks) ==
  \E c \in 1..Len(chunks) : \E m \in 1..Len(ZohoModules) :
     Includes(toLowerCase(chunks[c].text), ZohoModules[m].lower)

SomeTextHasDigit(chunks) ==
  \E c \in 1..Len(chunks) : \E i \in 1..Len(chunks[c].text) :
     chunks[c].text[i] \in DigitChars

\* the text of the passages matches the price pattern (digits, optional
\* white space, a currency word) or holds a price keyword
TextHasPrice(chunks) ==
  LET text == toLowerCase(AllText(chunks))
  IN  \/ IncludesSome(text, PriceKeywords)
      \/ \E i \in 1..Len(text) : \E j \in i..Len(text) :
            /\ text[i] \in DigitChars
            /\ \A x \in (i + 1)..j : text[x] \in SpaceChars
            /\ \E w \in 1..Len(CurrencyWords) :
                  MatchesAt(text, j + 1, CurrencyWords[w])

\* C7: for any non-empty retrieval result the answer holds header, summary,
\* workflow, modules, step-by-step, problems, results, technical details,
\* next steps and source footer once each in that order; an extraction
\* section holds extracted items or, when its scan finds nothing, its
\* fallback block, never an empty body; pricing is the only other section
\* besides the fixed explanation heading, and it is there exactly when the
\* passage text matches the price pattern or a price keyword.
C7_AnswerComplete ==
  (Answered /\ run.relevant /= <<>>)
  => LET answer == res.body.answer_ar
         chunks == run.relevant
     IN  /\ SelectSeq(answer, IsRequiredSection)
              = [i \in 1..Len(RequiredSections) |->
                   BlockOf(answer, RequiredSections[i])]
         /\ Len(SelectSeq(answer, IsRequiredSection)) = Len(RequiredSections)
         /\ \A i \in 1..Len(answer) :
               \/ IsRequiredSection(answer[i])
               \/ answer[i].sec \in {"explanation", "pricing"}
         /\ \A i, j \in 1..Len(answer) :
               answer[i].sec = answer[j].sec => i = j
         /\ \A i \in 1..Len(answer) :
               IF answer[i].sec \in ExtractionSections
               THEN \/ answer[i].kind = "fallback" /\ answer[i].items = <<>>
                    \/ answer[i].kind = "extracted" /\ answer[i].items /= <<>>
               ELSE answer[i].kind = "fixed"
         /\ ~SomeTextIncludes(chunks, WorkflowKeywords)
               => BlockOf(answer, "workflow").kind = "fallback"
         /\ SomeTextIncludes(chunks, WorkflowKeywords)
               => BlockOf(answer, "workflow").kind = "extracted"
         /\ ~SomeTextNamesModule(chunks)
               => BlockOf(answer, "modules").kind = "fallback"
         /\ ~SomeTextHasDigit(chunks)
               => BlockOf(answer, "steps").kind = "fallback"
         /\ ~SomeTextIncludes(chunks, ProblemKeywords)
               => BlockOf(answer, "problems").kind = "fallback"
         /\ Len(AllText(chunks)) <= 20
               => BlockOf(answer, "summary").kind = "fallback"
         /\ HasSection(answer, "pricing") <=> TextHasPrice(chunks)

\* C7's case: an answer with the pricing section, a section of extracted
\* text and a section that fell back
C7_Witness ==
  /\ Answered /\ run.relevant /= <<>>
  /\ HasSection(res.body.answer_ar, "pricing")
  /\ \E i \in 1..Len(res.body.answer_ar) :
        res.body.answer_ar[i].kind = "fallback"
  /\ \E i \in 1..Len(res.body.answer_ar) :
        res.body.answer_ar[i].kind = "extracted"

\* C10: in every response that carries a synthesized answer (to a request
\* whose top_k is at least 1), the sources are not empty, at most top_k, in
\* descending order of score; low_confidence is false exactly when every
\* source scores above 0.01 and true exactly when there is one source and
\* it scores at most 0.01; the footer of the answer lists the passages of
\* the sources in the same order.
C10_SourcesAsStated ==
  (Answered /\ EffectiveTopK >= 1)
  => LET sources == res.body.sources
         footer == BlockOf(res.body.answer_ar, "sources").items
     IN  /\ sources /= <<>>
         /\ Len(sources) <= EffectiveTopK
         /\ \A i, j \in 1..Len(sources) :
               i < j => ~ScoreGt(sources[j].score, sources[i].score)
         /\ res.body.low_confidence = FALSE
               <=> \A i \in 1..Len(sources) : AboveThreshold(sources[i].score)
         /\ res.body.low_confidence = TRUE
               <=> Len(sources) = 1 /\ AtMostThreshold(sources[1].score)
         /\ Len(footer) = Len(sources)
         /\ \A i \in 1..Len(sources) :
               /\ footer[i].file = sources[i].file
               /\ footer[i].chunk_index = sources[i].chunk_index

(***************************************************************************)
(* tokenize applied on its own to every text of up to MaxLen characters    *)
(* over an alphabet with a small and a capital Latin letter, a digit, the  *)
(* underscore, a space, a line feed, a full stop and the Arabic letter     *)
(* ain.                                                                    *)
(***************************************************************************)
Alphabet == {97, 90, 49, 95, 32, 10, 46, 1593}

TextsUpTo(n) == UNION {[1..k -> Alphabet] : k \in 0..n}

\* the server is not involved when a function is applied on its own
ServerIdle ==
  /\ kb = 1
  /\ INDEX = Corpora[1]
  /\ phase = "loading"
  /\ inflight = FALSE
  /\ req = NoRequest
  /\ res = NoResponse
  /\ run = NoRun
  /\ nreq = 0
  /\ orch = NoOrch

InitTokenize ==
  /\ ServerIdle
  /\ \E text \in TextsUpTo(MaxLen) :
        unit = [fn |-> "tokenize", text |-> text, done |-> FALSE, out |-> <<>>]

ApplyTokenize ==
  /\ unit.fn = "tokenize"
  /\ ~unit.done
  /\ unit' = [unit EXCEPT !.done = TRUE, !.out = tokenize(unit.text)]
  /\ UNCHANGED <<kb, INDEX, phase, inflight, req, res, run, nreq, orch>>

NextTokenize == ApplyTokenize

SpecTokenize == InitTokenize /\ [][NextTokenize]_vars

\* the word characters of either script: the Latin letters, the digits, the
\* underscore and the Arabic letters
UnicodeWordChars ==
  (48..57) \cup (65..90) \cup {95} \cup (97..122) \cup (1569..1610)

RECURSIVE WordRunsFrom(_, _)
\* the maximal runs of word characters of text from position i on
WordRunsFrom(text, i) ==
  LET b == SkipNotIn(text, i, UnicodeWordChars)
      e == SkipIn(text, b, UnicodeWordChars)
  IN  IF b > Len(text) THEN <<>>
      ELSE <<SubSeq(text, b, e - 1)>> \o WordRunsFrom(text, e)

\* C8: tokenize returns every maximal run of word characters of either
\* script as one lower-cased token, in order, and nothing else; an empty or
\* white-space-only input gives the empty sequence.
C8_UnicodeAware ==
  (unit.fn = "tokenize" /\ unit.done)
  => /\ unit.out = WordRunsFrom(toLowerCase(unit.text), 1)
     /\ (\A i \in 1..Len(unit.text) : unit.text[i] \in SpaceChars)
           => unit.out = <<>>

(***************************************************************************)
(* cosine applied on its own to every pair of term vectors over the keys   *)
(* "a", "b" and "constructor" with counts of at most MaxCount.             *)
(***************************************************************************)
VectorKeys == {<<97>>, <<98>>, KeyConstructor}

TermVectors ==
  UNION {[keys -> {Num(n) : n \in 0..MaxCount}] : keys \in SUBSET VectorKeys}

InitCosine ==
  /\ ServerIdle
  /\ \E a \in TermVectors, b \in TermVectors :
        unit = [fn |-> "cosine", a |-> a, b |-> b, done |-> FALSE,
                ab |-> ScoreZero, ba |-> ScoreZero]

ApplyCosine ==
  /\ unit.fn = "cosine"
  /\ ~unit.done
  /\ unit' = [unit EXCEPT !.done = TRUE,
                          !.ab = cosine(unit.a, unit.b),
                          !.ba = cosine(unit.b, unit.a)]
  /\ UNCHANGED <<kb, INDEX, phase, inflight, req, res, run, nreq, orch>>

NextCosine == ApplyCosine

SpecCosine == InitCosine /\ [][NextCosine]_vars

AllZero(vec) == \A k \in DOMAIN vec : vec[k] = Num(0)

\* C9: for all non-negative term vectors a and b, cosine(a, b) is
\* cosine(b, a), it is a number from 0 to 1, and it is 0, not NaN, when a
\* or b is empty or all zero.
C9_CosineAsStated ==
  (unit.fn = "cosine" /\ unit.done)
  => /\ unit.ab = unit.ba
     /\ unit.ab.t = "number" /\ 0 <= unit.ab.n /\ unit.ab.n <= unit.ab.d
     /\ (AllZero(unit.a) \/ AllZero(unit.b)) => unit.ab = ScoreZero

(***************************************************************************)
(* The answer orchestrator with the external completion service.  The      *)
(* handler of server.js has no external path; the README names an optional *)
(* Gemini integration configured by an environment variable.  The states   *)
(* and the transition rule below are those of the specification's section  *)
(* on the orchestrator (RECEIVED, RANKED, EXTERNAL_ATTEMPTED, EXTERNAL_OK,  *)
(* EXTERNAL_FAILED, SYNTHESIZED_LOCAL, RESPONDED); ranking and local        *)
(* synthesis are the handler's.  orch holds the state, whether a            *)
(* credential is configured, the request's use_external, how the external  *)
(* call ended and the envelope.  The classification of the question        *)
(* (query_mode) is left out.                                               *)
(***************************************************************************)
FailureReasons == {"network", "status", "malformed"}

NoEnvelope ==
  [answer_text |-> <<>>, low_confidence |-> FALSE, ai_powered |-> FALSE,
   sources |-> <<>>]

InitExternal ==
  /\ kb \in 1..Len(Corpora)
  /\ INDEX = VectorizedCorpora[kb]
  /\ phase = "listening"
  /\ inflight = FALSE
  /\ req = NoRequest
  /\ res = NoResponse
  /\ run = NoRun
  /\ nreq = 0
  /\ unit = NoUnit
  /\ \E credential \in BOOLEAN :
        orch = [state |-> "IDLE", credential |-> credential,
                use_external |-> TRUE, external |-> "none",
                envelope |-> NoEnvelope]

\* a question arrives; a request without a question is refused before the
\* orchestrator starts.  run is what the handler computes for the request,
\* its ranking and its local answer, which depend on the index and the
\* request alone; the steps below use them stage by stage
OrchReceive(r, use_external) ==
  /\ orch.state = "IDLE"
  /\ ~QuestionMissing(r)
  /\ req' = r
  /\ res' = NoResponse
  /\ run' = Handle(INDEX, r)
  /\ orch' = [orch EXCEPT !.state = "RECEIVED", !.use_external = use_external,
                          !.external = "none", !.envelope = NoEnvelope]
  /\ UNCHANGED <<kb, INDEX, phase, inflight, nreq, unit>>

\* the passages are ranked against the question: the ranking is in run
OrchRank ==
  /\ orch.state = "RECEIVED"
  /\ orch' = [orch EXCEPT !.state = "RANKED"]
  /\ UNCHANGED <<kb, INDEX, phase, inflight, req, res, run, nreq, unit>>

\* if use_external is true and a credential is configured, attempt the call
UsesExternal(o) == o.use_external /\ o.credential

OrchAttemptExternal ==
  /\ orch.state = "RANKED"
  /\ UsesExternal(orch)
  /\ orch' = [orch EXCEPT !.state = "EXTERNAL_ATTEMPTED"]
  /\ UNCHANGED <<kb, INDEX, phase, inflight, req, res, run, nreq, unit>>

\* the service returns generated text
OrchExternalOk ==
  /\ orch.state = "EXTERNAL_ATTEMPTED"
  /\ orch' = [orch EXCEPT !.state = "EXTERNAL_OK", !.external = "ok"]
  /\ UNCHANGED <<kb, INDEX, phase, inflight, req, res, run, nreq, unit>>

\* the call fails (network, non-success status, malformed payload) and the
\* failure is caught
OrchExternalFails(reason) ==
  /\ orch.state = "EXTERNAL_ATTEMPTED"
  /\ orch' = [orch EXCEPT !.state = "EXTERNAL_FAILED", !.external = reason]
  /\ UNCHANGED <<kb, INDEX, phase, inflight, req, res, run, nreq, unit>>

AiPoweredWhenRequested(o) == UsesExternal(o)

\* ai_powered: whether the external path actually succeeded
AiPowered(o) == o.external = "ok"

\* local synthesis, when no external call is made or it failed
OrchSynthesizeLocal ==
  /\ \/ orch.state = "RANKED" /\ ~UsesExternal(orch)
     \/ orch.state = "EXTERNAL_FAILED"
  /\ orch' = [orch EXCEPT
                !.state = "SYNTHESIZED_LOCAL",
                !.envelope = [answer_text |-> run.res.body.answer_ar,
                              low_confidence |-> run.lowConfidence,
                              ai_powered |-> AiPowered(orch),
                              sources |-> run.res.body.sources]]
  /\ UNCHANGED <<kb, INDEX, phase, inflight, req, res, run, nreq, unit>>

\* the envelope of the generated text is emitted
OrchRespondExternal ==
  /\ orch.state = "EXTERNAL_OK"
  /\ LET envelope == [answer_text |-> <<Block("completion", "generated", <<>>)>>,
                      low_confidence |-> run.lowConfidence,
                      ai_powered |-> AiPowered(orch),
                      sources |-> run.res.body.sources]
     IN  /\ orch' = [orch EXCEPT !.state = "RESPONDED", !.envelope = envelope]
         /\ res' = [status |-> 200, body |-> envelope]
  /\ UNCHANGED <<kb, INDEX, phase, inflight, req, run, nreq, unit>>

\* the envelope of the local answer is emitted
OrchRespondLocal ==
  /\ orch.state = "SYNTHESIZED_LOCAL"
  /\ orch' = [orch EXCEPT !.state = "RESPONDED"]
  /\ res' = [status |-> 200, body |-> orch.envelope]
  /\ UNCHANGED <<kb, INDEX, phase, inflight, req, run, nreq, unit>>

\* the request is complete: what was built for it is discarded
OrchDiscard ==
  /\ orch.state = "RESPONDED"
  /\ req' = NoRequest
  /\ res' = NoResponse
  /\ run' = NoRun
  /\ orch' = [orch EXCEPT !.state = "IDLE", !.use_external = TRUE,
                          !.external = "none", !.envelope = NoEnvelope]
  /\ UNCHANGED <<kb, INDEX, phase, inflight, nreq, unit>>

OrchExternalEnds ==
  OrchExternalOk \/ (\E reason \in FailureReasons : OrchExternalFails(reason))

NextExternal ==
  \/ \E r \in Requests, use_external \in BOOLEAN : OrchReceive(r, use_external)
  \/ OrchRank
  \/ OrchAttemptExternal
  \/ OrchExternalOk
  \/ \E reason \in FailureReasons : OrchExternalFails(reason)
  \/ OrchSynthesizeLocal
  \/ OrchRespondExternal
  \/ OrchRespondLocal
  \/ OrchDiscard

\* a request received is handled to its response: every step of the
\* orchestrator is taken once it can be, and the external call is bounded by
\* a timeout, so it ends
SpecExternal ==
  /\ InitExternal
  /\ [][NextExternal]_vars
  /\ WF_vars(OrchRank)
  /\ WF_vars(OrchAttemptExternal)
  /\ WF_vars(OrchExternalEnds)
  /\ WF_vars(OrchSynthesizeLocal)
  /\ WF_vars(OrchRespondExternal)
  /\ WF_vars(OrchRespondLocal)

\* the response to a request whose external call failed, made by local
\* synthesis
RespondedAfterFailure ==
  /\ orch.state = "RESPONDED"
  /\ orch.external \in FailureReasons
  /\ res.status = 200
  /\ res.body = orch.envelope
  /\ res.body.ai_powered = FALSE
  /\ res.body.answer_text /= <<>>
  /\ res.body.answer_text = run.res.body.answer_ar
  /\ res.body.sources = run.res.body.sources

\* C4: the external call fails only when use_external is true and a
\* credential is configured; a request whose external call failed goes on
\* to local synthesis and from there to RESPONDED, which it reaches, with
\* ai_powered false and a non-empty answer that is the local synthesizer's;
\* ai_powered is true in an envelope only when the external call succeeded.
C4_ExternalFallback ==
  /\ [](orch.state = "EXTERNAL_FAILED" => UsesExternal(orch))
  /\ [][orch.state = "EXTERNAL_FAILED"
          => orch'.state = "SYNTHESIZED_LOCAL" /\ req' = req]_vars
  /\ [][(orch.state = "SYNTHESIZED_LOCAL" /\ orch.external \in FailureReasons)
          => RespondedAfterFailure' /\ req' = req]_vars
  /\ (orch.state = "EXTERNAL_FAILED") ~> RespondedAfterFailure
  /\ [](orch.envelope.ai_powered => orch.external = "ok")

\* C4's case: a request against a non-empty corpus, sent with use_external
\* and a credential, whose external call failed, has its response
C4_Witness ==
  /\ RespondedAfterFailure
  /\ UsesExternal(orch)
  /\ INDEX /= <<>>
  /\ res.body.sources /= <<>>

=============================================================================
